---- MODULE Spec2Model ----
(***************************************************************************)
(* Payment gateway: admission queue, dispatch worker pool with             *)
(* retry/fallback, and the summary store (Redis hash + sorted set per      *)
(* processor).  Two builds of the gateway live in the repository:          *)
(*   build "main"  : src/main.go           (bounded retry, direct write)   *)
(*   build "batch" : src/unnamed/part_001  (single attempt, batched write) *)
(***************************************************************************)
EXTENDS Integers, Sequences, FiniteSets, TLC

VARIABLES build, now, submitted, sending, paymentQueue,
          wpc, wpay, wurl, wi, wpipe,
          concurrencyLimiter, firstOk, events,
          data, hist,
          batchProcessor, batch, bpc, bpipe, direct,
          pulls, wcalls, writes, resp

vars == <<build, now, submitted, sending, paymentQueue,
          wpc, wpay, wurl, wi, wpipe,
          concurrencyLimiter, firstOk, events,
          data, hist,
          batchProcessor, batch, bpc, bpipe, direct,
          pulls, wcalls, writes, resp>>

(***************************************************************************)
(* Bounds of the model.  The capacities stand for the configuration        *)
(* values of the program (100_000, 30, 10000, 1000), scaled down.          *)
(***************************************************************************)
MaxSubmit == 2
MaxHealthy == 3
MaxTime == 2
TicksPerMs == 2
QueueCap == 1
Permits == 1
BatchChanCap == 1
BatchSize == 2

\* for i := 0; i < 5; i++
MaxAttempts == 5

Workers == {1, 2}
Tags == {"default", "fallback"}
\* "" is the CorrelationId of a zero-value PostPayments
Cids == {"a", "b", "c", "d", ""}
\* the empty string in PostPayments.RequestedAt
NoTime == [layout |-> "", ms |-> 0]
\* the zero-value PostPayments
NoPayment == [id |-> 0, CorrelationId |-> "", Amount |-> 0, RequestedAt |-> NoTime]

\* request bodies a client may POST: amounts in thousandths of a currency
\* unit (the handler takes any JSON number); a body may be posted again
Requests ==
  { [CorrelationId |-> "a", Amount |-> 1005],
    [CorrelationId |-> "b", Amount |-> -1500] }

\* request bodies with distinct correlationIds and amounts in whole cents,
\* in the order in which clients post them
HealthyRequests ==
  << [CorrelationId |-> "a", Amount |-> 1000],
     [CorrelationId |-> "b", Amount |-> 1000],
     [CorrelationId |-> "c", Amount |-> 19900],
     [CorrelationId |-> "d", Amount |-> 1000] >>

\* outcomes of one HTTP POST to a processor
Outcomes == {"200", "500", "error"}

(***************************************************************************)
(* Time and number conversions                                             *)
(***************************************************************************)
\* time.Now().UTC().Format("2006-01-02T15:04:05.000Z07:00"): the instant cut
\* to whole milliseconds; the string is represented by its millisecond count
Format(t) == [layout |-> "ms", ms |-> t \div TicksPerMs]

\* time.Parse of that layout: the instant at the start of the millisecond
\* (the zero time.Time, before the epoch, when the string does not parse)
Parse(s) == IF s.layout = "ms" THEN s.ms * TicksPerMs ELSE -TicksPerMs

UnixMilli(t) == t \div TicksPerMs

\* go-redis writes a float64 argument as its shortest round-trip decimal string
FormatFloat(a) == [isString |-> TRUE, numeric |-> TRUE, str |-> a]

\* HMGET's reply for a field that is not in the hash
RedisNil == [isString |-> FALSE, numeric |-> FALSE, str |-> 0]

\* a hash value that is not the text of a number
NotANumber == [isString |-> TRUE, numeric |-> FALSE, str |-> 0]

\* ParseFloatErr, were text that is not a number parsed as 0 without error
ParseFloatErr_never(v) == FALSE

\* val.(string) followed by strconv.ParseFloat (value, and err != nil)
IsString(v) == v.isString
ParseFloat(v) == v.str
ParseFloatErr(v) == ~v.numeric

\* math.Round(x*100)/100 on thousandths: round half away from zero to cents
Round2(x) ==
  IF x >= 0 THEN ((x + 5) \div 10) * 10
  ELSE -((((-x) + 5) \div 10) * 10)

(***************************************************************************)
(* Summary store: Redis commands                                           *)
(***************************************************************************)
\* summary:<tag>:data, a hash: field -> string, RedisNil where there is no field
EmptyData == [t \in Tags |-> [c \in Cids |-> RedisNil]]

\* summary:<tag>:history, a sorted set: member -> score
NoMember == [member |-> FALSE, score |-> 0]
EmptyHist == [t \in Tags |-> [c \in Cids |-> NoMember]]

\* HSet, were the amount added to the field (HINCRBYFLOAT) instead of set
HSet_increment(d, tag, cid, amount) ==
  [d EXCEPT ![tag][cid] = FormatFloat((IF IsString(@) THEN ParseFloat(@) ELSE 0) + amount)]

\* HSET summary:<tag>:data <cid> <amount>: overwrite the field
HSet(d, tag, cid, amount) == [d EXCEPT ![tag][cid] = FormatFloat(amount)]

\* ZADD summary:<tag>:history <score> <cid>: add the member or update its score
ZAdd(h, tag, cid, score) == [h EXCEPT ![tag][cid] = [member |-> TRUE, score |-> score]]

\* ItemCmds, were the amount written to the other processor's hash
ItemCmds_otherHash(item) ==
  << [op |-> "HSET", tag |-> IF item.Prefix = "default" THEN "fallback" ELSE "default",
      cid |-> item.CorrelationId, val |-> item.Amount, id |-> item.id],
     [op |-> "ZADD", tag |-> item.Prefix, cid |-> item.CorrelationId,
      val |-> item.Timestamp, id |-> item.id] >>

\* the two commands saveSummaryAsync / processSummaryDirect queue for one event
ItemCmds(item) ==
  << [op |-> "HSET", tag |-> item.Prefix, cid |-> item.CorrelationId,
      val |-> item.Amount, id |-> item.id],
     [op |-> "ZADD", tag |-> item.Prefix, cid |-> item.CorrelationId,
      val |-> item.Timestamp, id |-> item.id] >>

\* the store after one queued command has run on the server
ApplyData(d, cmd) ==
  IF cmd.op = "HSET" THEN HSet(d, cmd.tag, cmd.cid, cmd.val) ELSE d
ApplyHist(h, cmd) ==
  IF cmd.op = "ZADD" THEN ZAdd(h, cmd.tag, cmd.cid, cmd.val) ELSE h

\* the bookkeeping after the server has run cmd, which came on path
Ran(wr, cmd, path) ==
  IF cmd.id \in DOMAIN wr THEN [wr EXCEPT ![cmd.id][path] = @ + 1] ELSE wr

\* ZRangeByScore, were Min and Max passed the wrong way round
ZRangeByScore_swapped(h, tag, min, max) ==
  {c \in Cids : h[tag][c].member /\ max <= h[tag][c].score /\ h[tag][c].score <= min}

\* ZRANGEBYSCORE summary:<tag>:history min max: members with min <= score <= max
ZRangeByScore(h, tag, min, max) ==
  {c \in Cids : h[tag][c].member /\ min <= h[tag][c].score /\ h[tag][c].score <= max}

RECURSIVE SumAmounts(_, _, _)
SumAmounts(d, tag, ids) ==
  IF ids = {} THEN 0
  ELSE LET c == CHOOSE x \in ids : TRUE
       IN ParseFloat(d[tag][c]) + SumAmounts(d, tag, ids \ {c})

\* the ids getSummaryData counts: in the range, with a string in the hash
\* that parses as a number
Counted(d, h, processor, from, to) ==
  {c \in ZRangeByScore(h, processor, from, to) :
     IsString(d[processor][c]) /\ ~ParseFloatErr(d[processor][c])}

\* getSummaryData(processor, from, to) on a store state; from, to in milliseconds
getSummaryData(d, h, processor, from, to) ==
  LET ids == ZRangeByScore(h, processor, from, to)
      found == Counted(d, h, processor, from, to)
  IN IF ids = {} THEN [TotalRequests |-> 0, TotalAmount |-> 0]
     ELSE [TotalRequests |-> Cardinality(found),
           TotalAmount |-> Round2(SumAmounts(d, processor, found))]

\* getSummaryData when a read may fail: both errors are dropped
\* (ids, _ := ...Result(); vals, _ := ...Result()), a failed ZRangeByScore
\* leaves ids empty and a failed HMGet leaves vals empty
getSummaryData_failing(d, h, processor, from, to, failed) ==
  LET ids == IF failed = "ZRangeByScore" THEN {}
             ELSE ZRangeByScore(h, processor, from, to)
      found == IF failed = "HMGet" THEN {}
               ELSE {c \in ids : IsString(d[processor][c])
                                   /\ ~ParseFloatErr(d[processor][c])}
  IN IF ids = {} THEN [TotalRequests |-> 0, TotalAmount |-> 0]
     ELSE [TotalRequests |-> Cardinality(found),
           TotalAmount |-> Round2(SumAmounts(d, processor, found))]

(***************************************************************************)
(* Initial state: after main() has flushed Redis and started the workers   *)
(***************************************************************************)
\* bookkeeping of a worker for the payment it last pulled: the number of
\* HTTP calls it has issued to each processor
NoCalls == [default |-> 0, fallback |-> 0]

\* bookkeeping of a payment: pipeline commands the server has run for its
\* event, by the path they came on
NoWrites == [batch |-> 0, direct |-> 0]

\* no summary request has been answered yet
NoResponse ==
  [status |-> 0, from |-> 0, to |-> 0, failedTag |-> "none", failed |-> "none",
   Default |-> [TotalRequests |-> 0, TotalAmount |-> 0],
   Fallback |-> [TotalRequests |-> 0, TotalAmount |-> 0]]

Init ==
  /\ build \in {"main", "batch"}
  /\ now = 0
  /\ submitted = <<>>
  /\ sending = {}
  /\ paymentQueue = <<>>
  /\ wpc = [w \in Workers |-> "pull"]
  /\ wpay = [w \in Workers |-> NoPayment]
  /\ wurl = [w \in Workers |-> "default"]
  /\ wi = [w \in Workers |-> 0]
  /\ wpipe = [w \in Workers |-> <<>>]
  /\ concurrencyLimiter = 0
  /\ firstOk = <<>>
  /\ events = {}
  /\ data = EmptyData
  /\ hist = EmptyHist
  /\ batchProcessor = <<>>
  /\ batch = <<>>
  /\ bpc = "select"
  /\ bpipe = <<>>
  /\ direct = {}
  /\ pulls = <<>>
  /\ wcalls = [w \in Workers |-> NoCalls]
  /\ writes = <<>>
  /\ resp = NoResponse

(***************************************************************************)
(* Ingress                                                                 *)
(***************************************************************************)
NextId == Len(submitted) + 1
Payment(req) ==
  [id |-> NextId, CorrelationId |-> req.CorrelationId, Amount |-> req.Amount,
   RequestedAt |-> NoTime]
Record(req, status) == Append(submitted, [req |-> req, status |-> status])

\* receivePayment, were the queue taken as full one entry too late
receivePayment_offByOne(method, decoded, req) ==
  /\ build = "main"
  /\ IF method # "POST" \/ ~decoded
       THEN UNCHANGED <<submitted, firstOk, paymentQueue, pulls, writes>>
       ELSE /\ pulls' = Append(pulls, 0)
            /\ writes' = Append(writes, NoWrites)
            /\ firstOk' = Append(firstOk, "none")
            /\ IF Len(paymentQueue) <= QueueCap
                 THEN /\ paymentQueue' = Append(paymentQueue, Payment(req))
                      /\ submitted' = Record(req, 201)
                 ELSE /\ submitted' = Record(req, 429)
                      /\ UNCHANGED paymentQueue
  /\ UNCHANGED <<build, now, sending, wpc, wpay, wurl, wi, wpipe,
                 concurrencyLimiter, events, data, hist,
                 batchProcessor, batch, bpc, bpipe, direct, wcalls, resp>>

\* main.go receivePayment: 405, 400, or a non-blocking send (201 / 429)
receivePayment(method, decoded, req) ==
  /\ build = "main"
  /\ IF method # "POST" \/ ~decoded
       THEN \* StatusMethodNotAllowed, StatusBadRequest: nothing is queued
            UNCHANGED <<submitted, firstOk, paymentQueue, pulls, writes>>
       ELSE /\ pulls' = Append(pulls, 0)
            /\ writes' = Append(writes, NoWrites)
            /\ firstOk' = Append(firstOk, "none")
            /\ IF Len(paymentQueue) < QueueCap
                 THEN /\ paymentQueue' = Append(paymentQueue, Payment(req))
                      /\ submitted' = Record(req, 201)
                 ELSE /\ submitted' = Record(req, 429)
                      /\ UNCHANGED paymentQueue
  /\ UNCHANGED <<build, now, sending, wpc, wpay, wurl, wi, wpipe,
                 concurrencyLimiter, events, data, hist,
                 batchProcessor, batch, bpc, bpipe, direct, wcalls, resp>>

\* part_001 receivePayment: WriteHeader(201), then a send that blocks while
\* the queue is full (the handler has not returned: the client still waits)
B_receivePayment(req) ==
  /\ build = "batch"
  /\ firstOk' = Append(firstOk, "none")
  /\ pulls' = Append(pulls, 0)
  /\ writes' = Append(writes, NoWrites)
  /\ IF Len(paymentQueue) < QueueCap
       THEN /\ paymentQueue' = Append(paymentQueue, Payment(req))
            /\ submitted' = Record(req, 201)
            /\ UNCHANGED sending
       ELSE /\ sending' = sending \cup {Payment(req)}
            /\ submitted' = Record(req, 0)
            /\ UNCHANGED paymentQueue
  /\ UNCHANGED <<build, now, wpc, wpay, wurl, wi, wpipe,
                 concurrencyLimiter, events, data, hist,
                 batchProcessor, batch, bpc, bpipe, direct, wcalls, resp>>

\* a handler blocked in paymentQueue <- p gets its slot and returns
B_receivePayment_send(p) ==
  /\ p \in sending
  /\ Len(paymentQueue) < QueueCap
  /\ paymentQueue' = Append(paymentQueue, p)
  /\ sending' = sending \ {p}
  /\ submitted' = [submitted EXCEPT ![p.id].status = 201]
  /\ UNCHANGED <<build, now, wpc, wpay, wurl, wi, wpipe,
                 concurrencyLimiter, firstOk, events, data, hist,
                 batchProcessor, batch, bpc, bpipe, direct,
                 pulls, wcalls, writes, resp>>

\* part_000 receivePayment: 405, 400, or the request is stamped with the
\* clock reading t and sent without blocking (202 / 429)
K_receivePayment(method, decoded, req, t) ==
  /\ build = "skeleton"
  /\ IF method # "POST" \/ ~decoded
       THEN UNCHANGED <<now, submitted, firstOk, paymentQueue, pulls, writes>>
       ELSE /\ now' = Parse(Format(t))
            /\ pulls' = Append(pulls, 0)
            /\ writes' = Append(writes, NoWrites)
            /\ firstOk' = Append(firstOk, "none")
            /\ IF Len(paymentQueue) < QueueCap
                 THEN /\ paymentQueue' =
                           Append(paymentQueue,
                                  [Payment(req) EXCEPT !.RequestedAt = Format(t)])
                      /\ submitted' = Record(req, 202)
                 ELSE /\ submitted' = Record(req, 429)
                      /\ UNCHANGED paymentQueue
  /\ UNCHANGED <<build, sending, wpc, wpay, wurl, wi, wpipe,
                 concurrencyLimiter, events, data, hist,
                 batchProcessor, batch, bpc, bpipe, direct, wcalls, resp>>

\* part_000 processPayments: the payment is taken off the queue and printed
K_processPayments(w) ==
  /\ build = "skeleton"
  /\ wpc[w] = "pull"
  /\ paymentQueue # <<>>
  /\ paymentQueue' = Tail(paymentQueue)
  /\ pulls' = [pulls EXCEPT ![Head(paymentQueue).id] = @ + 1]
  /\ UNCHANGED <<build, now, submitted, sending, wpc, wpay, wurl, wi, wpipe,
                 concurrencyLimiter, firstOk, events, data, hist, batchProcessor,
                 batch, bpc, bpipe, direct, wcalls, writes, resp>>

(***************************************************************************)
(* Dispatch workers                                                        *)
(***************************************************************************)
\* processPayments_pull, were a received payment left at the head of the
\* queue for a second receive
processPayments_pull_peek(w, t) ==
  /\ wpc[w] = "pull"
  /\ paymentQueue # <<>>
  /\ now' = Parse(Format(t))
  /\ wpay' = [wpay EXCEPT ![w] = [Head(paymentQueue) EXCEPT !.RequestedAt = Format(t)]]
  /\ paymentQueue' = IF pulls[Head(paymentQueue).id] = 0 THEN paymentQueue
                     ELSE Tail(paymentQueue)
  /\ wi' = [wi EXCEPT ![w] = 0]
  /\ wurl' = [wurl EXCEPT ![w] = "default"]
  /\ wpc' = [wpc EXCEPT ![w] = "acquire"]
  /\ pulls' = [pulls EXCEPT ![Head(paymentQueue).id] = @ + 1]
  /\ wcalls' = [wcalls EXCEPT ![w] = NoCalls]
  /\ UNCHANGED <<build, submitted, sending, wpipe, concurrencyLimiter,
                 firstOk, events, data, hist, batchProcessor, batch, bpc, bpipe,
                 direct, writes, resp>>

\* for payment := range queue; payment.RequestedAt = time.Now()...Format(...)
\* (the clock is read here only: t is this reading, and now keeps the
\* last reading at the precision the program keeps of it)
processPayments_pull(w, t) ==
  /\ wpc[w] = "pull"
  /\ paymentQueue # <<>>
  /\ now' = Parse(Format(t))
  /\ wpay' = [wpay EXCEPT ![w] = [Head(paymentQueue) EXCEPT !.RequestedAt = Format(t)]]
  /\ paymentQueue' = Tail(paymentQueue)
  /\ wi' = [wi EXCEPT ![w] = 0]
  /\ wurl' = [wurl EXCEPT ![w] = "default"]
  /\ wpc' = [wpc EXCEPT ![w] = "acquire"]
  /\ pulls' = [pulls EXCEPT ![Head(paymentQueue).id] = @ + 1]
  /\ wcalls' = [wcalls EXCEPT ![w] = NoCalls]
  /\ UNCHANGED <<build, submitted, sending, wpipe, concurrencyLimiter,
                 firstOk, events, data, hist, batchProcessor, batch, bpc, bpipe,
                 direct, writes, resp>>

\* forwardToProcessor_acquire, were the send on concurrencyLimiter not to
\* wait for room
forwardToProcessor_acquire_noWait(w) ==
  /\ wpc[w] = "acquire"
  /\ concurrencyLimiter' = concurrencyLimiter + 1
  /\ wpc' = [wpc EXCEPT ![w] = "call"]
  /\ wcalls' = [wcalls EXCEPT ![w][wurl[w]] = @ + 1]
  /\ UNCHANGED <<build, now, submitted, sending, paymentQueue, wpay, wurl, wi,
                 wpipe, firstOk, events, data, hist, batchProcessor, batch, bpc,
                 bpipe, direct, pulls, writes, resp>>

\* forwardToProcessor: concurrencyLimiter <- struct{}{} (blocks while full)
forwardToProcessor_acquire(w) ==
  /\ wpc[w] = "acquire"
  /\ concurrencyLimiter < Permits
  /\ concurrencyLimiter' = concurrencyLimiter + 1
  /\ wpc' = [wpc EXCEPT ![w] = "call"]
  /\ wcalls' = [wcalls EXCEPT ![w][wurl[w]] = @ + 1]
  /\ UNCHANGED <<build, now, submitted, sending, paymentQueue, wpay, wurl, wi,
                 wpipe, firstOk, events, data, hist, batchProcessor, batch, bpc,
                 bpipe, direct, pulls, writes, resp>>

\* Success, were every response without a transport error taken as success
Success_anyResponse(outcome) == outcome # "error"

\* forwardToProcessor's result: resp.StatusCode == http.StatusOK
Success(outcome) == outcome = "200"

\* SummaryItem / the arguments of saveSummaryAsync(processor, payment)
Item(processor, payment) ==
  [Prefix |-> processor, CorrelationId |-> payment.CorrelationId,
   Amount |-> payment.Amount,
   Timestamp |-> UnixMilli(Parse(payment.RequestedAt)), id |-> payment.id]

\* processPayments_after, were a fallback success saved under "default"
processPayments_after_defaultTag(w, ok) ==
  IF ok
    THEN /\ events' = events \cup {Item("default", wpay[w])}
         /\ wpipe' = [wpipe EXCEPT ![w] = ItemCmds(Item("default", wpay[w]))]
         /\ wpc' = [wpc EXCEPT ![w] = "exec"]
         /\ UNCHANGED <<wpay, wurl, wi, wcalls>>
    ELSE IF wurl[w] = "default"
      THEN /\ wi' = [wi EXCEPT ![w] = wi[w] + 1]
           /\ wurl' = [wurl EXCEPT ![w] =
                         IF wi[w] + 1 < MaxAttempts THEN "default" ELSE "fallback"]
           /\ wpc' = [wpc EXCEPT ![w] = "acquire"]
           /\ UNCHANGED <<wpay, wpipe, events, wcalls>>
      ELSE /\ wpc' = [wpc EXCEPT ![w] = "pull"]
           /\ wpay' = [wpay EXCEPT ![w] = NoPayment]
           /\ wurl' = [wurl EXCEPT ![w] = "default"]
           /\ wi' = [wi EXCEPT ![w] = 0]
           /\ wcalls' = [wcalls EXCEPT ![w] = NoCalls]
           /\ UNCHANGED <<wpipe, events>>

\* processPayments_after, were the worker to return from processPayments
\* when both processors failed
processPayments_after_workerExits(w, ok) ==
  IF ok
    THEN /\ events' = events \cup {Item(wurl[w], wpay[w])}
         /\ wpipe' = [wpipe EXCEPT ![w] = ItemCmds(Item(wurl[w], wpay[w]))]
         /\ wpc' = [wpc EXCEPT ![w] = "exec"]
         /\ UNCHANGED <<wpay, wurl, wi, wcalls>>
    ELSE IF wurl[w] = "default"
      THEN /\ wi' = [wi EXCEPT ![w] = wi[w] + 1]
           /\ wurl' = [wurl EXCEPT ![w] =
                         IF wi[w] + 1 < MaxAttempts THEN "default" ELSE "fallback"]
           /\ wpc' = [wpc EXCEPT ![w] = "acquire"]
           /\ UNCHANGED <<wpay, wpipe, events, wcalls>>
      ELSE /\ wpc' = [wpc EXCEPT ![w] = "exit"]
           /\ wpay' = [wpay EXCEPT ![w] = NoPayment]
           /\ wurl' = [wurl EXCEPT ![w] = "default"]
           /\ wi' = [wi EXCEPT ![w] = 0]
           /\ wcalls' = [wcalls EXCEPT ![w] = NoCalls]
           /\ UNCHANGED <<wpipe, events>>

\* processPayments_after, were the default processor tried once more
processPayments_after_sixAttempts(w, ok) ==
  IF ok
    THEN /\ events' = events \cup {Item(wurl[w], wpay[w])}
         /\ wpipe' = [wpipe EXCEPT ![w] = ItemCmds(Item(wurl[w], wpay[w]))]
         /\ wpc' = [wpc EXCEPT ![w] = "exec"]
         /\ UNCHANGED <<wpay, wurl, wi, wcalls>>
    ELSE IF wurl[w] = "default"
      THEN /\ wi' = [wi EXCEPT ![w] = wi[w] + 1]
           /\ wurl' = [wurl EXCEPT ![w] =
                         IF wi[w] + 1 <= MaxAttempts THEN "default" ELSE "fallback"]
           /\ wpc' = [wpc EXCEPT ![w] = "acquire"]
           /\ UNCHANGED <<wpay, wpipe, events, wcalls>>
      ELSE /\ wpc' = [wpc EXCEPT ![w] = "pull"]
           /\ wpay' = [wpay EXCEPT ![w] = NoPayment]
           /\ wurl' = [wurl EXCEPT ![w] = "default"]
           /\ wi' = [wi EXCEPT ![w] = 0]
           /\ wcalls' = [wcalls EXCEPT ![w] = NoCalls]
           /\ UNCHANGED <<wpipe, events>>

\* where the main.go worker goes after forwardToProcessor returned
\* (the deferred <-concurrencyLimiter has run)
processPayments_after(w, ok) ==
  IF ok
    THEN \* saveSummaryAsync(wurl, payment): queue HSet, ZAdd; then pipe.Exec
         /\ events' = events \cup {Item(wurl[w], wpay[w])}
         /\ wpipe' = [wpipe EXCEPT ![w] = ItemCmds(Item(wurl[w], wpay[w]))]
         /\ wpc' = [wpc EXCEPT ![w] = "exec"]
         /\ UNCHANGED <<wpay, wurl, wi, wcalls>>
    ELSE IF wurl[w] = "default"
      THEN \* time.Sleep(100 * time.Millisecond); i++; the next default
           \* attempt while i < 5, the fallback after that
           /\ wi' = [wi EXCEPT ![w] = wi[w] + 1]
           /\ wurl' = [wurl EXCEPT ![w] =
                         IF wi[w] + 1 < MaxAttempts THEN "default" ELSE "fallback"]
           /\ wpc' = [wpc EXCEPT ![w] = "acquire"]
           /\ UNCHANGED <<wpay, wpipe, events, wcalls>>
      ELSE \* both failed: nothing saved, next payment (the variables of
           \* the loop body go out of scope)
           /\ wpc' = [wpc EXCEPT ![w] = "pull"]
           /\ wpay' = [wpay EXCEPT ![w] = NoPayment]
           /\ wurl' = [wurl EXCEPT ![w] = "default"]
           /\ wi' = [wi EXCEPT ![w] = 0]
           /\ wcalls' = [wcalls EXCEPT ![w] = NoCalls]
           /\ UNCHANGED <<wpipe, events>>

\* B_processPayments_after, were a failed fallback call made a second time
B_processPayments_after_fallbackTwice(w, ok) ==
  IF ok
    THEN /\ events' = events \cup {Item(wurl[w], wpay[w])}
         /\ IF Len(batchProcessor) < BatchChanCap
              THEN /\ batchProcessor' = Append(batchProcessor, Item(wurl[w], wpay[w]))
                   /\ UNCHANGED direct
              ELSE /\ direct' = direct \cup {ItemCmds(Item(wurl[w], wpay[w]))}
                   /\ UNCHANGED batchProcessor
         /\ wpc' = [wpc EXCEPT ![w] = "pull"]
         /\ wpay' = [wpay EXCEPT ![w] = NoPayment]
         /\ wurl' = [wurl EXCEPT ![w] = "default"]
         /\ wcalls' = [wcalls EXCEPT ![w] = NoCalls]
         /\ UNCHANGED <<wi, wpipe>>
    ELSE IF wurl[w] = "default" \/ wcalls[w].fallback < 2
      THEN /\ wurl' = [wurl EXCEPT ![w] = "fallback"]
           /\ wpc' = [wpc EXCEPT ![w] = "acquire"]
           /\ UNCHANGED <<wpay, wi, wpipe, events, batchProcessor, direct, wcalls>>
      ELSE /\ wpc' = [wpc EXCEPT ![w] = "pull"]
           /\ wpay' = [wpay EXCEPT ![w] = NoPayment]
           /\ wurl' = [wurl EXCEPT ![w] = "default"]
           /\ wcalls' = [wcalls EXCEPT ![w] = NoCalls]
           /\ UNCHANGED <<wi, wpipe, events, batchProcessor, direct>>

\* B_processPayments_after, were an event also written directly when the
\* channel has taken it
B_processPayments_after_bothPaths(w, ok) ==
  IF ok
    THEN /\ events' = events \cup {Item(wurl[w], wpay[w])}
         /\ direct' = direct \cup {ItemCmds(Item(wurl[w], wpay[w]))}
         /\ IF Len(batchProcessor) < BatchChanCap
              THEN batchProcessor' = Append(batchProcessor, Item(wurl[w], wpay[w]))
              ELSE UNCHANGED batchProcessor
         /\ wpc' = [wpc EXCEPT ![w] = "pull"]
         /\ wpay' = [wpay EXCEPT ![w] = NoPayment]
         /\ wurl' = [wurl EXCEPT ![w] = "default"]
         /\ wcalls' = [wcalls EXCEPT ![w] = NoCalls]
         /\ UNCHANGED <<wi, wpipe>>
    ELSE IF wurl[w] = "default"
      THEN /\ wurl' = [wurl EXCEPT ![w] = "fallback"]
           /\ wpc' = [wpc EXCEPT ![w] = "acquire"]
           /\ UNCHANGED <<wpay, wi, wpipe, events, batchProcessor, direct, wcalls>>
      ELSE /\ wpc' = [wpc EXCEPT ![w] = "pull"]
           /\ wpay' = [wpay EXCEPT ![w] = NoPayment]
           /\ wurl' = [wurl EXCEPT ![w] = "default"]
           /\ wcalls' = [wcalls EXCEPT ![w] = NoCalls]
           /\ UNCHANGED <<wi, wpipe, events, batchProcessor, direct>>

\* where the part_001 worker goes after forwardToProcessor returned
B_processPayments_after(w, ok) ==
  IF ok
    THEN \* saveSummaryAsync(processorUsed, payment): a non-blocking send to
         \* batchProcessor, or go processSummaryDirect(item) when it is full
         /\ events' = events \cup {Item(wurl[w], wpay[w])}
         /\ IF Len(batchProcessor) < BatchChanCap
              THEN /\ batchProcessor' = Append(batchProcessor, Item(wurl[w], wpay[w]))
                   /\ UNCHANGED direct
              ELSE /\ direct' = direct \cup {ItemCmds(Item(wurl[w], wpay[w]))}
                   /\ UNCHANGED batchProcessor
         /\ wpc' = [wpc EXCEPT ![w] = "pull"]
         /\ wpay' = [wpay EXCEPT ![w] = NoPayment]
         /\ wurl' = [wurl EXCEPT ![w] = "default"]
         /\ wcalls' = [wcalls EXCEPT ![w] = NoCalls]
         /\ UNCHANGED <<wi, wpipe>>
    ELSE IF wurl[w] = "default"
      THEN /\ wurl' = [wurl EXCEPT ![w] = "fallback"]
           /\ wpc' = [wpc EXCEPT ![w] = "acquire"]
           /\ UNCHANGED <<wpay, wi, wpipe, events, batchProcessor, direct, wcalls>>
      ELSE /\ wpc' = [wpc EXCEPT ![w] = "pull"]
           /\ wpay' = [wpay EXCEPT ![w] = NoPayment]
           /\ wurl' = [wurl EXCEPT ![w] = "default"]
           /\ wcalls' = [wcalls EXCEPT ![w] = NoCalls]
           /\ UNCHANGED <<wi, wpipe, events, batchProcessor, direct>>

\* the HTTP call of forwardToProcessor returns and the permit is released
forwardToProcessor_return(w, outcome) ==
  /\ wpc[w] = "call"
  /\ concurrencyLimiter' = concurrencyLimiter - 1
  /\ firstOk' = [firstOk EXCEPT ![wpay[w].id] =
                    IF @ = "none" /\ outcome = "200" THEN wurl[w] ELSE @]
  /\ IF build = "main"
       THEN processPayments_after(w, Success(outcome))
            /\ UNCHANGED <<batchProcessor, direct>>
       ELSE B_processPayments_after(w, Success(outcome))
  /\ UNCHANGED <<build, now, submitted, sending, paymentQueue, data, hist,
                 batch, bpc, bpipe, pulls, writes, resp>>

\* pipe.Exec of saveSummaryAsync: the server runs the next queued command
saveSummaryAsync_exec(w) ==
  /\ wpc[w] = "exec"
  /\ data' = ApplyData(data, Head(wpipe[w]))
  /\ hist' = ApplyHist(hist, Head(wpipe[w]))
  /\ wpipe' = [wpipe EXCEPT ![w] = Tail(@)]
  /\ IF Len(wpipe[w]) = 1
       THEN /\ wpc' = [wpc EXCEPT ![w] = "pull"]
            /\ wpay' = [wpay EXCEPT ![w] = NoPayment]
            /\ wurl' = [wurl EXCEPT ![w] = "default"]
            /\ wi' = [wi EXCEPT ![w] = 0]
            /\ wcalls' = [wcalls EXCEPT ![w] = NoCalls]
       ELSE UNCHANGED <<wpc, wpay, wurl, wi, wcalls>>
  /\ writes' = Ran(writes, Head(wpipe[w]), "direct")
  /\ UNCHANGED <<build, now, submitted, sending, paymentQueue,
                 concurrencyLimiter, firstOk, events, batchProcessor, batch, bpc,
                 bpipe, direct, pulls, resp>>

\* pipe.Exec fails (connection lost): the commands not yet run are lost and
\* the error is dropped (_, _ = pipe.Exec(ctx))
saveSummaryAsync_fail(w) ==
  /\ wpc[w] = "exec"
  /\ wpipe' = [wpipe EXCEPT ![w] = <<>>]
  /\ wpc' = [wpc EXCEPT ![w] = "pull"]
  /\ wpay' = [wpay EXCEPT ![w] = NoPayment]
  /\ wurl' = [wurl EXCEPT ![w] = "default"]
  /\ wi' = [wi EXCEPT ![w] = 0]
  /\ wcalls' = [wcalls EXCEPT ![w] = NoCalls]
  /\ UNCHANGED <<build, now, submitted, sending, paymentQueue,
                 concurrencyLimiter, firstOk, events, data, hist, batchProcessor,
                 batch, bpc, bpipe, direct, pulls, writes, resp>>

(***************************************************************************)
(* Aggregation batcher (part_001)                                          *)
(***************************************************************************)
\* BatchCmds, were every ZADD of a batch given the first item's Timestamp
BatchCmds_scoreOfFirst(b) ==
  [i \in 1..(2 * Len(b)) |->
     IF i % 2 = 1 THEN ItemCmds(b[(i + 1) \div 2])[1]
     ELSE [ItemCmds(b[i \div 2])[2] EXCEPT !.val = b[1].Timestamp]]

\* the commands processSummaryBatch queues for a batch, in order
RECURSIVE BatchCmds(_)
BatchCmds(b) == IF b = <<>> THEN <<>> ELSE ItemCmds(Head(b)) \o BatchCmds(Tail(b))

\* summaryBatchHandler_recv, were a full batch flushed without the item
\* just received (and the item dropped by the reset that follows)
summaryBatchHandler_recv_flushWithoutItem ==
  /\ build = "batch"
  /\ bpc = "select"
  /\ batchProcessor # <<>>
  /\ batchProcessor' = Tail(batchProcessor)
  /\ batch' = Append(batch, Head(batchProcessor))
  /\ IF Len(batch) + 1 >= BatchSize /\ batch # <<>>
       THEN /\ bpipe' = BatchCmds(batch)
            /\ bpc' = "exec"
       ELSE UNCHANGED <<bpipe, bpc>>
  /\ UNCHANGED <<build, now, submitted, sending, paymentQueue, wpc, wpay, wurl,
                 wi, wpipe, concurrencyLimiter, firstOk, events, data, hist,
                 direct,
                 pulls, wcalls, writes, resp>>

\* summaryBatchHandler, case item := <-batchProcessor
summaryBatchHandler_recv ==
  /\ build = "batch"
  /\ bpc = "select"
  /\ batchProcessor # <<>>
  /\ batchProcessor' = Tail(batchProcessor)
  /\ batch' = Append(batch, Head(batchProcessor))
  /\ IF Len(batch) + 1 >= BatchSize
       THEN /\ bpipe' = BatchCmds(Append(batch, Head(batchProcessor)))
            /\ bpc' = "exec"
       ELSE UNCHANGED <<bpipe, bpc>>
  /\ UNCHANGED <<build, now, submitted, sending, paymentQueue, wpc, wpay, wurl,
                 wi, wpipe, concurrencyLimiter, firstOk, events, data, hist,
                 direct,
                 pulls, wcalls, writes, resp>>

\* summaryBatchHandler, case <-ticker.C
summaryBatchHandler_tick ==
  /\ build = "batch"
  /\ bpc = "select"
  /\ IF Len(batch) > 0
       THEN /\ bpipe' = BatchCmds(batch)
            /\ bpc' = "exec"
       ELSE UNCHANGED <<bpipe, bpc>>
  /\ UNCHANGED <<build, now, submitted, sending, paymentQueue, wpc, wpay, wurl,
                 wi, wpipe, concurrencyLimiter, firstOk, events, data, hist,
                 batchProcessor, batch, direct,
                 pulls, wcalls, writes, resp>>

\* processSummaryBatch_exec, were the batch kept after the flush
processSummaryBatch_exec_noReset ==
  /\ bpc = "exec"
  /\ data' = ApplyData(data, Head(bpipe))
  /\ hist' = ApplyHist(hist, Head(bpipe))
  /\ bpipe' = Tail(bpipe)
  /\ IF Len(bpipe) = 1
       THEN /\ bpc' = "select"
            /\ UNCHANGED batch
       ELSE UNCHANGED <<bpc, batch>>
  /\ writes' = Ran(writes, Head(bpipe), "batch")
  /\ UNCHANGED <<build, now, submitted, sending, paymentQueue, wpc, wpay, wurl,
                 wi, wpipe, concurrencyLimiter, firstOk, events, batchProcessor,
                 direct, pulls, wcalls, resp>>

\* pipe.Exec of processSummaryBatch: the server runs the next queued command;
\* after the last one the handler resets the batch (batch = batch[:0])
processSummaryBatch_exec ==
  /\ bpc = "exec"
  /\ data' = ApplyData(data, Head(bpipe))
  /\ hist' = ApplyHist(hist, Head(bpipe))
  /\ bpipe' = Tail(bpipe)
  /\ IF Len(bpipe) = 1
       THEN /\ bpc' = "select"
            /\ batch' = <<>>
       ELSE UNCHANGED <<bpc, batch>>
  /\ writes' = Ran(writes, Head(bpipe), "batch")
  /\ UNCHANGED <<build, now, submitted, sending, paymentQueue, wpc, wpay, wurl,
                 wi, wpipe, concurrencyLimiter, firstOk, events, batchProcessor,
                 direct, pulls, wcalls, resp>>

\* processSummaryBatch_fail, were the handler to queue the batch again after
\* a failed pipe.Exec
processSummaryBatch_fail_retried ==
  /\ bpc = "exec"
  /\ bpipe' = BatchCmds(batch)
  /\ UNCHANGED <<build, now, submitted, sending, paymentQueue, wpc, wpay, wurl,
                 wi, wpipe, concurrencyLimiter, firstOk, events, data, hist,
                 batchProcessor, direct, batch, bpc,
                 pulls, wcalls, writes, resp>>

\* pipe.Exec of processSummaryBatch fails: the rest of the batch is lost
processSummaryBatch_fail ==
  /\ bpc = "exec"
  /\ bpipe' = <<>>
  /\ bpc' = "select"
  /\ batch' = <<>>
  /\ UNCHANGED <<build, now, submitted, sending, paymentQueue, wpc, wpay, wurl,
                 wi, wpipe, concurrencyLimiter, firstOk, events, data, hist,
                 batchProcessor, direct,
                 pulls, wcalls, writes, resp>>

\* pipe.Exec of a processSummaryDirect goroutine: the next queued command
processSummaryDirect_exec(pipe) ==
  /\ pipe \in direct
  /\ data' = ApplyData(data, Head(pipe))
  /\ hist' = ApplyHist(hist, Head(pipe))
  /\ direct' = (direct \ {pipe}) \cup (IF Len(pipe) > 1 THEN {Tail(pipe)} ELSE {})
  /\ writes' = Ran(writes, Head(pipe), "direct")
  /\ UNCHANGED <<build, now, submitted, sending, paymentQueue, wpc, wpay, wurl,
                 wi, wpipe, concurrencyLimiter, firstOk, events, batchProcessor,
                 batch, bpc, bpipe, pulls, wcalls, resp>>

\* pipe.Exec of a processSummaryDirect goroutine fails
processSummaryDirect_fail(pipe) ==
  /\ pipe \in direct
  /\ direct' = direct \ {pipe}
  /\ UNCHANGED <<build, now, submitted, sending, paymentQueue, wpc, wpay, wurl,
                 wi, wpipe, concurrencyLimiter, firstOk, events, data, hist,
                 batchProcessor, batch, bpc, bpipe,
                 pulls, wcalls, writes, resp>>

(***************************************************************************)
(* Whole flushes, and a flush repeated (a retry after a crash)             *)
(***************************************************************************)
\* the store after pipe.Exec has run every queued command
RECURSIVE ExecData(_, _)
ExecData(d, cmds) ==
  IF cmds = <<>> THEN d ELSE ExecData(ApplyData(d, Head(cmds)), Tail(cmds))
RECURSIVE ExecHist(_, _)
ExecHist(h, cmds) ==
  IF cmds = <<>> THEN h ELSE ExecHist(ApplyHist(h, Head(cmds)), Tail(cmds))

\* the events a batch may hold
FlushPayments ==
  { [CorrelationId |-> "a", Amount |-> 1005, Timestamp |-> 0],
    [CorrelationId |-> "a", Amount |-> -1500, Timestamp |-> 1],
    [CorrelationId |-> "b", Amount |-> 1005, Timestamp |-> 1],
    [CorrelationId |-> "b", Amount |-> 19900, Timestamp |-> 0] }
FlushItems ==
  { [Prefix |-> tag, CorrelationId |-> x.CorrelationId, Amount |-> x.Amount,
     Timestamp |-> x.Timestamp, id |-> 0] : tag \in Tags, x \in FlushPayments }
Batches == UNION {[1..n -> FlushItems] : n \in 1..BatchSize}

\* processSummaryBatch(b) with a healthy store
processSummaryBatch(b) ==
  /\ build = "batch"
  /\ bpc = "select"
  /\ data' = ExecData(data, BatchCmds(b))
  /\ hist' = ExecHist(hist, BatchCmds(b))
  /\ batch' = b
  /\ bpc' = "flushed"
  /\ UNCHANGED <<build, now, submitted, sending, paymentQueue, wpc, wpay, wurl,
                 wi, wpipe, concurrencyLimiter, firstOk, events, batchProcessor,
                 bpipe, direct,
                 pulls, wcalls, writes, resp>>

\* the same batch is written once more
processSummaryBatch_again ==
  /\ bpc = "flushed"
  /\ data' = ExecData(data, BatchCmds(batch))
  /\ hist' = ExecHist(hist, BatchCmds(batch))
  /\ bpc' = "reflushed"
  /\ UNCHANGED <<build, now, submitted, sending, paymentQueue, wpc, wpay, wurl,
                 wi, wpipe, concurrencyLimiter, firstOk, events, batchProcessor,
                 batch, bpipe, direct,
                 pulls, wcalls, writes, resp>>

\* batch = batch[:0]
summaryBatchHandler_reset ==
  /\ bpc \in {"flushed", "reflushed"}
  /\ batch' = <<>>
  /\ bpc' = "select"
  /\ UNCHANGED <<build, now, submitted, sending, paymentQueue, wpc, wpay, wurl,
                 wi, wpipe, concurrencyLimiter, firstOk, events, data, hist,
                 batchProcessor, bpipe, direct,
                 pulls, wcalls, writes, resp>>

(***************************************************************************)
(* Summary endpoint                                                        *)
(***************************************************************************)
\* the millisecond values a query range may name
Millis == 0..(UnixMilli(MaxTime) + 1)

\* the value of a query parameter that is absent or not an RFC3339 time
NoParam == -1

\* the instants a query parameter may name (RFC3339 takes fractions of a
\* second finer than a millisecond)
Instants == 0..MaxTime

\* time.Parse(time.RFC3339, ...) gives the zero time.Time when it fails
IsZero(param) == param = NoParam

\* handlePaymentsSummary: from defaults to the epoch and to to the clock
\* reading t; getSummaryData passes from.UnixMilli() and to.UnixMilli() to
\* ZRangeByScore; failed names the Redis read that fails while failedTag's
\* summary is computed ("none": every read succeeds)
handlePaymentsSummary(method, fromParam, toParam, t, failedTag, failed) ==
  /\ IF method # "GET"
       THEN resp' = [NoResponse EXCEPT !.status = 405]
       ELSE LET from == UnixMilli(IF IsZero(fromParam) THEN 0 ELSE fromParam)
                to == UnixMilli(IF IsZero(toParam) THEN t ELSE toParam)
                f(tag) == IF tag = failedTag THEN failed ELSE "none"
            IN resp' = [status |-> 200, from |-> from, to |-> to,
                        failedTag |-> IF failed = "none" THEN "none" ELSE failedTag,
                        failed |-> failed,
                        Default |-> getSummaryData_failing(data, hist, "default",
                                                           from, to, f("default")),
                        Fallback |-> getSummaryData_failing(data, hist, "fallback",
                                                            from, to, f("fallback"))]
  /\ UNCHANGED <<build, now, submitted, sending, paymentQueue, wpc, wpay, wurl,
                 wi, wpipe, concurrencyLimiter, firstOk, events, data, hist,
                 batchProcessor, batch, bpc, bpipe, direct, pulls, wcalls,
                 writes>>

\* the hash fields and sorted-set members the queried stores may hold
StoreKeys == {<<"default", "a">>, <<"default", "b">>, <<"fallback", "a">>}

\* contents of the two hashes: no field, an amount, or other text
StoreData ==
  {d \in [Tags -> [Cids -> {RedisNil, FormatFloat(1005), NotANumber}]] :
     \A tag \in Tags, c \in Cids : <<tag, c>> \notin StoreKeys => d[tag][c] = RedisNil}

\* contents of the two sorted sets: scores in milliseconds
StoreHist ==
  {h \in [Tags -> [Cids -> {NoMember, [member |-> TRUE, score |-> 0],
                                      [member |-> TRUE, score |-> 1]}]] :
     \A tag \in Tags, c \in Cids : <<tag, c>> \notin StoreKeys => h[tag][c] = NoMember}

(***************************************************************************)
(* Specifications                                                          *)
(***************************************************************************)
\* clients post at most MaxSubmit bodies
MaySubmit == Len(submitted) < MaxSubmit

\* src/main.go alone
NextMain ==
  \/ \E m \in {"POST", "GET"}, ok \in BOOLEAN, r \in Requests :
       MaySubmit /\ receivePayment(m, ok, r)
  \/ \E w \in Workers, t \in now..MaxTime : processPayments_pull(w, t)
  \/ \E w \in Workers : forwardToProcessor_acquire(w)
  \/ \E w \in Workers, o \in Outcomes : forwardToProcessor_return(w, o)
  \/ \E w \in Workers : saveSummaryAsync_exec(w)
  \/ \E w \in Workers : saveSummaryAsync_fail(w)

\* either build
Next ==
  \/ \E m \in {"POST", "GET"}, ok \in BOOLEAN, r \in Requests :
       MaySubmit /\ receivePayment(m, ok, r)
  \/ \E r \in Requests : MaySubmit /\ B_receivePayment(r)
  \/ \E p \in sending : B_receivePayment_send(p)
  \/ \E w \in Workers, t \in now..MaxTime : processPayments_pull(w, t)
  \/ \E w \in Workers : forwardToProcessor_acquire(w)
  \/ \E w \in Workers, o \in Outcomes : forwardToProcessor_return(w, o)
  \/ \E w \in Workers : saveSummaryAsync_exec(w)
  \/ \E w \in Workers : saveSummaryAsync_fail(w)
  \/ summaryBatchHandler_recv
  \/ summaryBatchHandler_tick
  \/ processSummaryBatch_exec
  \/ processSummaryBatch_fail
  \/ \E p \in direct : processSummaryDirect_exec(p)
  \/ \E p \in direct : processSummaryDirect_fail(p)

\* flushes of arbitrary batches, each possibly repeated
NextFlush ==
  \/ \E b \in Batches : processSummaryBatch(b)
  \/ processSummaryBatch_again
  \/ summaryBatchHandler_reset

\* either build with a healthy default processor and a healthy store, and
\* clients that post at most MaxHealthy bodies with distinct correlationIds
MaySubmitHealthy ==
  Len(submitted) < MaxHealthy /\ Len(submitted) < Len(HealthyRequests)
NextRequest == HealthyRequests[Len(submitted) + 1]

NextHealthy ==
  \/ MaySubmitHealthy /\ receivePayment("POST", TRUE, NextRequest)
  \/ MaySubmitHealthy /\ B_receivePayment(NextRequest)
  \/ \E p \in sending : B_receivePayment_send(p)
  \/ \E w \in Workers, t \in now..MaxTime : processPayments_pull(w, t)
  \/ \E w \in Workers : forwardToProcessor_acquire(w)
  \/ \E w \in Workers : forwardToProcessor_return(w, "200")
  \/ \E w \in Workers : saveSummaryAsync_exec(w)
  \/ summaryBatchHandler_recv
  \/ summaryBatchHandler_tick
  \/ processSummaryBatch_exec
  \/ \E p \in direct : processSummaryDirect_exec(p)

\* every goroutine that can take a step eventually takes one, the ticker
\* keeps firing, and every call to a processor or to the store returns
FairHealthy ==
  /\ WF_vars(\E p \in sending : B_receivePayment_send(p))
  /\ \A w \in Workers :
       /\ WF_vars(\E t \in now..MaxTime : processPayments_pull(w, t))
       /\ WF_vars(forwardToProcessor_acquire(w))
       /\ WF_vars(forwardToProcessor_return(w, "200"))
       /\ WF_vars(saveSummaryAsync_exec(w))
  /\ WF_vars(summaryBatchHandler_recv)
  /\ WF_vars(summaryBatchHandler_tick)
  /\ WF_vars(processSummaryBatch_exec)
  /\ WF_vars(\E p \in direct : processSummaryDirect_exec(p))

\* summary requests against a Redis whose contents do not change
NextQuery ==
  \/ handlePaymentsSummary("POST", NoParam, NoParam, now, "default", "none")
  \/ \E clock \in now..MaxTime :
       handlePaymentsSummary("GET", NoParam, NoParam, clock, "default", "none")
  \/ \E f \in Instants, t \in Instants :
       handlePaymentsSummary("GET", f, t, now, "default", "none")
  \/ \E f \in Instants, t \in Instants, tag \in Tags, failed \in {"ZRangeByScore", "HMGet"} :
       handlePaymentsSummary("GET", f, t, now, tag, failed)

InitQuery ==
  /\ build \in {"main", "batch"}
  /\ now = 0
  /\ submitted = <<>>
  /\ sending = {}
  /\ paymentQueue = <<>>
  /\ wpc = [w \in Workers |-> "pull"]
  /\ wpay = [w \in Workers |-> NoPayment]
  /\ wurl = [w \in Workers |-> "default"]
  /\ wi = [w \in Workers |-> 0]
  /\ wpipe = [w \in Workers |-> <<>>]
  /\ concurrencyLimiter = 0
  /\ firstOk = <<>>
  /\ events = {}
  /\ data \in StoreData
  /\ hist \in StoreHist
  /\ batchProcessor = <<>>
  /\ batch = <<>>
  /\ bpc = "select"
  /\ bpipe = <<>>
  /\ direct = {}
  /\ pulls = <<>>
  /\ wcalls = [w \in Workers |-> NoCalls]
  /\ writes = <<>>
  /\ resp = NoResponse

SpecQuery == InitQuery /\ [][NextQuery]_vars

\* src/unnamed/part_000 alone; clients post at most MaxHealthy bodies
MaySubmitSkeleton == Len(submitted) < MaxHealthy

NextSkeleton ==
  \/ \E m \in {"POST", "GET"}, ok \in BOOLEAN, r \in Requests, t \in now..MaxTime :
       MaySubmitSkeleton /\ K_receivePayment(m, ok, r, t)
  \/ \E w \in Workers : K_processPayments(w)

InitSkeleton ==
  /\ build = "skeleton"
  /\ now = 0
  /\ submitted = <<>>
  /\ sending = {}
  /\ paymentQueue = <<>>
  /\ wpc = [w \in Workers |-> "pull"]
  /\ wpay = [w \in Workers |-> NoPayment]
  /\ wurl = [w \in Workers |-> "default"]
  /\ wi = [w \in Workers |-> 0]
  /\ wpipe = [w \in Workers |-> <<>>]
  /\ concurrencyLimiter = 0
  /\ firstOk = <<>>
  /\ events = {}
  /\ data = EmptyData
  /\ hist = EmptyHist
  /\ batchProcessor = <<>>
  /\ batch = <<>>
  /\ bpc = "select"
  /\ bpipe = <<>>
  /\ direct = {}
  /\ pulls = <<>>
  /\ wcalls = [w \in Workers |-> NoCalls]
  /\ writes = <<>>
  /\ resp = NoResponse

SpecSkeleton == InitSkeleton /\ [][NextSkeleton]_vars
\* either build with processors and a store that may fail, and clients that
\* post at most MaxSubmit bodies with distinct correlationIds
NextFair ==
  \/ MaySubmit /\ receivePayment("POST", TRUE, NextRequest)
  \/ MaySubmit /\ B_receivePayment(NextRequest)
  \/ \E p \in sending : B_receivePayment_send(p)
  \/ \E w \in Workers, t \in now..MaxTime : processPayments_pull(w, t)
  \/ \E w \in Workers : forwardToProcessor_acquire(w)
  \/ \E w \in Workers, o \in Outcomes : forwardToProcessor_return(w, o)
  \/ \E w \in Workers : saveSummaryAsync_exec(w)
  \/ \E w \in Workers : saveSummaryAsync_fail(w)
  \/ summaryBatchHandler_recv
  \/ summaryBatchHandler_tick
  \/ processSummaryBatch_exec
  \/ processSummaryBatch_fail
  \/ \E p \in direct : processSummaryDirect_exec(p)
  \/ \E p \in direct : processSummaryDirect_fail(p)

\* the next step of worker w, wherever it is in its loop
processPayments(w) ==
  \/ \E t \in now..MaxTime : processPayments_pull(w, t)
  \/ forwardToProcessor_acquire(w)
  \/ \E o \in Outcomes : forwardToProcessor_return(w, o)
  \/ saveSummaryAsync_exec(w)
  \/ saveSummaryAsync_fail(w)

\* every goroutine that can take a step eventually takes one, the ticker
\* keeps firing, and every call to a processor or to the store returns, with
\* whatever outcome
Fair ==
  /\ WF_vars(\E p \in sending : B_receivePayment_send(p))
  /\ \A w \in Workers : WF_vars(processPayments(w))
  /\ WF_vars(summaryBatchHandler_recv)
  /\ WF_vars(summaryBatchHandler_tick)
  /\ WF_vars(processSummaryBatch_exec \/ processSummaryBatch_fail)
  /\ WF_vars(\E p \in direct : processSummaryDirect_exec(p) \/ processSummaryDirect_fail(p))

SpecFair == Init /\ [][NextFair]_vars /\ Fair
InitMain == Init /\ build = "main"
SpecHealthy == Init /\ [][NextHealthy]_vars /\ FairHealthy
InitBatch == Init /\ build = "batch"
SpecFlush == InitBatch /\ [][NextFlush]_vars
Spec == Init /\ [][Next]_vars
SpecMain == InitMain /\ [][NextMain]_vars

(***************************************************************************)
(* Properties                                                              *)
(***************************************************************************)
Pids == 1..Len(submitted)
Cid(p) == submitted[p].req.CorrelationId
Amount(p) == submitted[p].req.Amount
\* the submit of p returned 201
Accepted(p) == submitted[p].status = 201
InQueue(p) == \E i \in 1..Len(paymentQueue) : paymentQueue[i].id = p
Held(p) == \E w \in Workers : wpay[w].id = p
\* a worker pulled p and has gone on to its next pull
Finished(p) == Accepted(p) /\ ~InQueue(p) /\ ~Held(p)
EventsOf(p) == {e \in events : e.id = p}

\* C1: once the worker has finished with an accepted payment for which some
\* processor call returned 200, exactly one AccountingEvent of that payment
\* exists, tagged with the processor whose call returned 200 first.
C1_OneEventTaggedByFirstSuccess ==
  \A p \in Pids :
    (Finished(p) /\ firstOk[p] # "none") =>
      /\ Cardinality(EventsOf(p)) = 1
      /\ \A e \in EventsOf(p) :
           /\ e.Prefix = firstOk[p]
           /\ e.CorrelationId = Cid(p)
           /\ e.Amount = Amount(p)

\* C1 witness: a finished payment whose default attempts all failed and whose
\* fallback call returned 200, with its event
C1_Witness ==
  \E p \in Pids :
    Finished(p) /\ firstOk[p] = "fallback" /\ EventsOf(p) # {}

\* every default attempt and the fallback attempt of p failed and the worker
\* has moved on
Failed(p) == Finished(p) /\ firstOk[p] = "none"

\* no query of either tag over any range counts p: an id it counts is the
\* id of an event of that tag, and p has none
NotCounted(p) ==
  \A tag \in Tags, from \in Millis, to \in Millis :
    Cid(p) \in Counted(data, hist, tag, from, to) =>
      \E e \in events : e.Prefix = tag /\ e.CorrelationId = Cid(p) /\ e.id # p

\* C2: a payment whose every processor call failed never has an
\* AccountingEvent, is never put back on the admission queue or taken by a
\* worker again, and no summary query counts it in any later state.
C2_FailedPaymentNeverAccounted ==
  /\ [](\A p \in Pids : Failed(p) => (EventsOf(p) = {} /\ NotCounted(p)))
  /\ [][\A p \in Pids : Failed(p) => Failed(p)']_vars

\* C2 witness: a failed payment, while another payment with the same
\* correlationId is in the summary store
C2_Witness ==
  \E p \in Pids :
    /\ Failed(p)
    /\ \E tag \in Tags : Cid(p) \in Counted(data, hist, tag, 0, UnixMilli(MaxTime))

\* C3 (as claimed): at most one AccountingEvent is ever created per
\* correlationId, and no correlationId is in both the default and the
\* fallback aggregate.
C3_AtMostOneEventPerCorrelationId ==
  /\ \A e1 \in events, e2 \in events :
       e1.CorrelationId = e2.CorrelationId => e1 = e2
  /\ \A c \in Cids : ~(hist["default"][c].member /\ hist["fallback"][c].member)

\* C4: every hash field and every sorted-set member under a tag belongs to a
\* payment for which that tag's processor returned 200, and the hash holds
\* that payment's amount.
C4_StoreOnlyHoldsAcceptedPayments ==
  \A tag \in Tags, c \in Cids :
    /\ IsString(data[tag][c]) =>
         \E p \in Pids : /\ Cid(p) = c
                         /\ firstOk[p] = tag
                         /\ data[tag][c] = FormatFloat(Amount(p))
    /\ hist[tag][c].member =>
         \E p \in Pids : Cid(p) = c /\ firstOk[p] = tag

\* C4 witness: the fallback hash and index hold an entry
C4_Witness ==
  \E c \in Cids : IsString(data["fallback"][c]) /\ hist["fallback"][c].member

\* C5 (as claimed): no receivePayment handler ever waits for queue space.
C5_SubmitNeverBlocks == sending = {}

\* C6: a decoded POST is answered 429 exactly when the queue holds QueueCap
\* entries and is otherwise appended to the queue and answered 201; the queue
\* never holds more than QueueCap entries; while at most QueueCap bodies have
\* been posted none has been answered 429.
C6_RejectedIffQueueFull ==
  /\ [][Len(submitted') > Len(submitted) =>
          LET r == submitted'[Len(submitted')]
          IN /\ (r.status = 429) <=> (Len(paymentQueue) = QueueCap)
             /\ r.status \in {201, 429}
             /\ r.status = 201 =>
                  /\ Len(paymentQueue') = Len(paymentQueue) + 1
                  /\ paymentQueue'[Len(paymentQueue')].id = Len(submitted')
             /\ r.status = 429 => paymentQueue' = paymentQueue]_vars
  /\ [](Len(paymentQueue) <= QueueCap)
  /\ [](Len(submitted) <= QueueCap => \A p \in Pids : submitted[p].status # 429)

\* C6 witness: one body was answered 201 and a later one 429
C6_Witness ==
  \E p \in Pids, q \in Pids :
    p < q /\ submitted[p].status = 201 /\ submitted[q].status = 429

\* nothing is queued, in flight or waiting to be flushed
Settled ==
  /\ paymentQueue = <<>>
  /\ sending = {}
  /\ \A w \in Workers : wpc[w] = "pull"
  /\ batchProcessor = <<>>
  /\ batch = <<>>
  /\ bpc = "select"
  /\ direct = {}

RECURSIVE SumOf(_)
SumOf(ps) ==
  IF ps = {} THEN 0
  ELSE LET p == CHOOSE x \in ps : TRUE IN Amount(p) + SumOf(ps \ {p})

\* the default summary over [epoch, now] counts every accepted payment once
\* and the fallback summary is empty
SummaryComplete ==
  LET acc == {p \in Pids : Accepted(p)}
  IN /\ getSummaryData(data, hist, "default", 0, UnixMilli(now))
          = [TotalRequests |-> Cardinality(acc), TotalAmount |-> SumOf(acc)]
     /\ getSummaryData(data, hist, "fallback", 0, UnixMilli(now))
          = [TotalRequests |-> 0, TotalAmount |-> 0]

\* C7: with a healthy default processor and store and distinct correlationIds
\* the system settles again and again, and whenever it has settled the default
\* summary over a covering range shows the number of accepted payments and the
\* sum of their amounts.
C7_AllEventsWritten ==
  /\ []<>Settled
  /\ [](Settled => SummaryComplete)

\* C7 witness: the batching build has settled with more accepted payments
\* than the batch size, all of them in the default summary
C7_Witness ==
  /\ build = "batch"
  /\ Settled
  /\ Cardinality({p \in Pids : Accepted(p)}) > BatchSize
  /\ getSummaryData(data, hist, "default", 0, UnixMilli(now)).TotalRequests > BatchSize

\* C8: writing a batch a second time changes neither the store nor the
\* result of any summary query.
C8_FlushIdempotent ==
  [][bpc' = "reflushed" =>
       /\ data' = data
       /\ hist' = hist
       /\ \A tag \in Tags, from \in Millis, to \in Millis :
            getSummaryData(data', hist', tag, from, to)
              = getSummaryData(data, hist, tag, from, to)]_vars

\* C8 witness: a full batch has been written twice and a query counts it
C8_Witness ==
  /\ bpc = "reflushed"
  /\ Len(batch) = BatchSize
  /\ \E tag \in Tags :
       getSummaryData(data, hist, tag, 0, UnixMilli(MaxTime)).TotalRequests > 0

\* C9 (as claimed): for each tag a correlationId has a hash field exactly when
\* it is a member of the sorted set.
C9_HashAndIndexAgree ==
  \A tag \in Tags, c \in Cids : IsString(data[tag][c]) <=> hist[tag][c].member

Wider(from2, to2, from, to) == from2 <= from /\ to <= to2

\* C10 (as claimed): widening the range never decreases totalRequests or
\* totalAmount.
C10_QueryMonotonic ==
  \A tag \in Tags, from \in Millis, to \in Millis, from2 \in Millis, to2 \in Millis :
    Wider(from2, to2, from, to) =>
      /\ getSummaryData(data, hist, tag, from2, to2).TotalRequests
           >= getSummaryData(data, hist, tag, from, to).TotalRequests
      /\ getSummaryData(data, hist, tag, from2, to2).TotalAmount
           >= getSummaryData(data, hist, tag, from, to).TotalAmount

\* C10 (amended): widening the range never decreases totalRequests, and never
\* decreases totalAmount when no amount counted in the wider range is negative.
C10_QueryMonotonicNonNegative ==
  \A tag \in Tags, from \in Millis, to \in Millis, from2 \in Millis, to2 \in Millis :
    Wider(from2, to2, from, to) =>
      /\ getSummaryData(data, hist, tag, from2, to2).TotalRequests
           >= getSummaryData(data, hist, tag, from, to).TotalRequests
      /\ (\A c \in Counted(data, hist, tag, from2, to2) : ParseFloat(data[tag][c]) >= 0)
           => getSummaryData(data, hist, tag, from2, to2).TotalAmount
                >= getSummaryData(data, hist, tag, from, to).TotalAmount

\* C10 witness: a tag with two counted ids of non-negative amount at different
\* times, so that a range holds one and a wider range both
C10_Witness ==
  \E tag \in Tags :
    /\ Cardinality(Counted(data, hist, tag, 0, 0)) = 1
    /\ Cardinality(Counted(data, hist, tag, 0, 1)) = 2
    /\ \A c \in Counted(data, hist, tag, 0, 1) : ParseFloat(data[tag][c]) > 0

\* the summary the store holds for tag over the range of the last response
StoreSummary(tag) == getSummaryData(data, hist, tag, resp.from, resp.to)

\* C11 (as claimed): a summary request during which a Redis read failed is
\* answered with an error, and a request answered 200 carries, for each tag,
\* the totals the store holds for the requested range.
C11_ReadFailureSurfaced ==
  /\ resp.failed # "none" => resp.status # 200
  /\ resp.status = 200 =>
       /\ resp.Default = StoreSummary("default")
       /\ resp.Fallback = StoreSummary("fallback")

\* the ids of tag's index with a score in [from, to] of the last response
\* whose hash field is present and is the text of a number
InRangeWithAmount(tag) ==
  {c \in Cids : /\ hist[tag][c].member
                /\ resp.from <= hist[tag][c].score
                /\ hist[tag][c].score <= resp.to
                /\ data[tag][c].isString
                /\ data[tag][c].numeric}
AmountIfCounted(tag, c) ==
  IF c \in InRangeWithAmount(tag) THEN data[tag][c].str ELSE 0
ExpectedAmount(tag) ==
  AmountIfCounted(tag, "a") + AmountIfCounted(tag, "b") + AmountIfCounted(tag, "c")
    + AmountIfCounted(tag, "d") + AmountIfCounted(tag, "")
\* thousandths to the nearest cent, halves away from zero
ToCents(x) == IF x >= 0 THEN 10 * ((x + 5) \div 10) ELSE -(10 * ((5 - x) \div 10))
ExpectedSummary(tag) ==
  [TotalRequests |-> Cardinality(InRangeWithAmount(tag)),
   TotalAmount |-> ToCents(ExpectedAmount(tag))]

Holding(w) == wpay[w].id # 0
\* the default attempts a build makes before it falls back
Attempts == IF build = "main" THEN MaxAttempts ELSE 1
\* w issues an HTTP call in this step
Calls(w) == wcalls'[w].default + wcalls'[w].fallback
              = wcalls[w].default + wcalls[w].fallback + 1
\* the call of w returns in this step and w is done with its payment
Done(w) == wpc[w] = "call" /\ wpc'[w] \in {"pull", "exec"}

\* C13: a worker calls the fallback at most once per payment, and only after
\* every default attempt of that payment has been made and has failed; it
\* issues no call for a payment after a call for it returned success; when it
\* is done with a payment it has called the fallback once if no default
\* attempt succeeded and not at all otherwise.
C13_FallbackOnceIffDefaultFailed ==
  /\ [](\A w \in Workers :
          /\ wcalls[w].fallback <= 1
          /\ wcalls[w].fallback = 1 => wcalls[w].default = Attempts
          /\ (Holding(w) /\ firstOk[wpay[w].id] # "none") =>
               wpc[w] \notin {"acquire", "call"})
  /\ [][\A w \in Workers :
          /\ Calls(w) =>
               /\ Holding(w) /\ firstOk[wpay[w].id] = "none"
               /\ wcalls'[w].fallback = 1 =>
                    wcalls[w] = [default |-> Attempts, fallback |-> 0]
          /\ Done(w) =>
               (wcalls[w].fallback = 1) <=> (firstOk'[wpay[w].id] # "default")
          /\ (wpc[w] = "call" /\ wpc'[w] # "call"
                /\ wcalls[w] = [default |-> Attempts, fallback |-> 0]
                /\ firstOk'[wpay[w].id] = "none") =>
               (wpc'[w] = "acquire" /\ wurl'[w] = "fallback")]_vars

\* C13 witness: a worker of src/main.go is done with a payment that was
\* accepted by the fallback after every default attempt had failed
C13_Witness ==
  \E w \in Workers :
    /\ Holding(w) /\ wpc[w] = "exec"
    /\ firstOk[wpay[w].id] = "fallback"
    /\ wcalls[w] = [default |-> MaxAttempts, fallback |-> 1]

\* C14: in src/main.go a worker makes between 1 and MaxAttempts calls to the
\* default processor per payment, none after one has returned success, and at
\* most one call to the fallback: MaxAttempts + 1 calls per payment at most.
C14_BoundedRetryDefaultOnly ==
  /\ [](\A w \in Workers :
          /\ wcalls[w].default <= MaxAttempts
          /\ wcalls[w].fallback <= 1
          /\ wcalls[w].default + wcalls[w].fallback <= MaxAttempts + 1
          /\ wpc[w] \in {"call", "exec"} => wcalls[w].default >= 1)
  /\ [][\A w \in Workers :
          /\ (Calls(w) /\ wcalls'[w].default > wcalls[w].default) =>
               /\ firstOk[wpay[w].id] = "none"
               /\ wcalls[w].fallback = 0
          /\ (wpc[w] = "call" /\ wurl[w] = "fallback") => wpc'[w] # "acquire"
          /\ Done(w) => wcalls[w].default >= 1]_vars

\* C14 witness: a worker is done with a payment the default processor
\* accepted on the third attempt
C14_Witness ==
  \E w \in Workers :
    /\ wpc[w] = "exec"
    /\ firstOk[wpay[w].id] = "default"
    /\ wcalls[w] = [default |-> 3, fallback |-> 0]

\* the workers with an HTTP call to a processor in flight
InFlight == {w \in Workers : wpc[w] = "call"}

\* C15: the permits taken are exactly those of the workers with a call in
\* flight, one each, and never more than Permits; a call is issued only by
\* taking a free permit, and whatever the call's outcome the worker has given
\* its permit back when it retries, saves the event or pulls again.
C15_PermitsBoundCallsAndNeverLeak ==
  /\ [](/\ concurrencyLimiter = Cardinality(InFlight)
        /\ concurrencyLimiter <= Permits)
  /\ [][\A w \in Workers :
          /\ (wpc[w] # "call" /\ wpc'[w] = "call") =>
               /\ wpc[w] = "acquire"
               /\ concurrencyLimiter < Permits
               /\ concurrencyLimiter' = concurrencyLimiter + 1
          /\ (wpc[w] = "call" /\ wpc'[w] # "call") =>
               /\ concurrencyLimiter' = concurrencyLimiter - 1
               /\ wpc'[w] \in {"acquire", "exec", "pull"}]_vars

\* C15 witness: more workers than permits: every permit is taken by a call
\* in flight while another worker waits for one
C15_Witness ==
  /\ Cardinality(InFlight) = Permits
  /\ \E w \in Workers : wpc[w] = "acquire"
  /\ Cardinality(Workers) > Permits

\* some command of pipe belongs to event e
HasCmdOf(pipe, e) == \E i \in 1..Len(pipe) : pipe[i].id = e.id
\* e is in the batcher's channel, in its batch or in its pipeline
OnBatchPath(e) ==
  \/ \E i \in 1..Len(batchProcessor) : batchProcessor[i] = e
  \/ \E i \in 1..Len(batch) : batch[i] = e
  \/ HasCmdOf(bpipe, e)
\* e is in the pipeline of a direct write
OnDirectPath(e) ==
  \/ \E p \in direct : HasCmdOf(p, e)
  \/ \E w \in Workers : HasCmdOf(wpipe[w], e)

\* C16: an event is handed to the batcher's channel when it has room and to
\* a direct single-event write when it is full, and the worker of part_001
\* goes on to its next pull in the same step; an event is never on both
\* paths, its commands are run by one path only, and once it is on no path
\* any more both of its commands have been run, by that one path.
C16_EventTakesExactlyOnePath ==
  /\ [](\A e \in events :
          /\ ~(OnBatchPath(e) /\ OnDirectPath(e))
          /\ ~(writes[e.id].batch > 0 /\ writes[e.id].direct > 0)
          /\ OnBatchPath(e) => writes[e.id].direct = 0
          /\ OnDirectPath(e) => writes[e.id].batch = 0
          /\ writes[e.id].batch + writes[e.id].direct <= Len(ItemCmds(e))
          /\ (~OnBatchPath(e) /\ ~OnDirectPath(e)) =>
               writes[e.id].batch + writes[e.id].direct = Len(ItemCmds(e)))
  /\ [][\A e \in events' \ events :
          IF build = "batch"
            THEN /\ \E w \in Workers : wpay[w].id = e.id /\ wpc'[w] = "pull"
                 /\ IF Len(batchProcessor) < BatchChanCap
                      THEN /\ batchProcessor' = Append(batchProcessor, e)
                           /\ direct' = direct
                      ELSE /\ direct' = direct \cup {ItemCmds(e)}
                           /\ batchProcessor' = batchProcessor
            ELSE \E w \in Workers :
                   wpay[w].id = e.id /\ wpipe'[w] = ItemCmds(e) /\ wpc'[w] = "exec"]_vars

\* C16 witness: part_001 has settled with one event written by a batch flush
\* and another by a direct write
C16_Witness ==
  /\ build = "batch"
  /\ Settled
  /\ \E e1 \in events, e2 \in events :
       /\ writes[e1.id] = [batch |-> 2, direct |-> 0]
       /\ writes[e2.id] = [batch |-> 0, direct |-> 2]

\* C17: the batch never holds more than BatchSize events and the loop never
\* waits with a full batch; the step that makes the batch reach BatchSize
\* starts a flush of the whole batch, a tick with a non-empty batch starts a
\* flush of the whole batch, a tick with an empty batch changes nothing, a
\* finished flush leaves the batch empty, and a non-empty batch is always
\* emptied later.
C17_FlushOnSizeOrTick ==
  /\ [](/\ Len(batch) <= BatchSize
        /\ bpc = "select" => Len(batch) < BatchSize)
  /\ [][
       /\ Len(batchProcessor') < Len(batchProcessor) =>
            /\ batch' = Append(batch, Head(batchProcessor))
            /\ IF Len(batch') >= BatchSize
                 THEN bpc' = "exec" /\ bpipe' = BatchCmds(batch')
                 ELSE bpc' = "select" /\ bpipe' = bpipe
       /\ (bpc = "select" /\ bpc' = "exec") =>
            /\ batch' # <<>>
            /\ bpipe' = BatchCmds(batch')
            /\ batch' = batch \/ Len(batch') = BatchSize
       /\ (summaryBatchHandler_tick /\ batch # <<>>) =>
            (bpc' = "exec" /\ bpipe' = BatchCmds(batch) /\ batch' = batch)
       /\ (summaryBatchHandler_tick /\ batch = <<>>) => UNCHANGED vars
       /\ (bpc = "exec" /\ bpc' = "select") => batch' = <<>>
     ]_vars
  /\ (batch # <<>>) ~> (batch = <<>>)

\* C17 witness: after a flush of a full batch, a tick flushes a batch that
\* holds fewer than BatchSize events
C17_Witness ==
  /\ bpc = "exec"
  /\ batch # <<>> /\ Len(batch) < BatchSize
  /\ bpipe = BatchCmds(batch)
  /\ Cardinality({e \in events : writes[e.id].batch = Len(ItemCmds(e))}) >= BatchSize

\* the event of S under tag with correlationId c, when there is one
EventsAt(S, tag, c) == {e \in S : e.Prefix = tag /\ e.CorrelationId = c}
TheEvent(S, tag, c) == CHOOSE e \in EventsAt(S, tag, c) : TRUE
\* the store that holds exactly the events of S
DataOf(S) ==
  [tag \in Tags |-> [c \in Cids |->
     IF EventsAt(S, tag, c) = {} THEN RedisNil
     ELSE FormatFloat(TheEvent(S, tag, c).Amount)]]
HistOf(S) ==
  [tag \in Tags |-> [c \in Cids |->
     IF EventsAt(S, tag, c) = {} THEN NoMember
     ELSE [member |-> TRUE, score |-> TheEvent(S, tag, c).Timestamp]]]

\* C18: for events with distinct correlationIds, once every write has
\* settled the store is a function of the set of events alone, whichever of
\* them were written by batch flushes (of either trigger), by direct
\* single-event writes of part_001 or by src/main.go's own direct writes, and
\* in whatever order the commands ran; so is every summary query.
C18_BatchedAndDirectAgree ==
  /\ \A e1 \in events, e2 \in events : e1.CorrelationId = e2.CorrelationId => e1 = e2
  /\ Settled =>
       /\ data = DataOf(events)
       /\ hist = HistOf(events)
       /\ \A tag \in Tags, from \in Millis, to \in Millis :
            getSummaryData(data, hist, tag, from, to)
              = getSummaryData(DataOf(events), HistOf(events), tag, from, to)

\* C18 witness: part_001 has settled after a batch flush wrote two events
\* with different timestamps and a direct write a third
C18_Witness ==
  /\ build = "batch"
  /\ Settled
  /\ \E e1 \in events, e2 \in events, e3 \in events :
       /\ writes[e1.id].batch = 2 /\ writes[e2.id].batch = 2
       /\ e1.Timestamp # e2.Timestamp
       /\ writes[e3.id].direct = 2
  /\ data = DataOf(events) /\ hist = HistOf(events)

\* C19 (as claimed): a request carries no requestedAt set by the gateway
\* while it waits in the admission queue; the worker that pulls it sets
\* requestedAt to the clock reading of the pull, cut to the millisecond, and
\* the payment it holds does not change until it is done with it, so every
\* call sends the same body; the event's Timestamp is that millisecond and
\* its correlationId and amount are those submitted.
C19_RequestedAtAssignedAtPull ==
  /\ [](/\ \A i \in 1..Len(paymentQueue) : paymentQueue[i].RequestedAt = NoTime
        /\ \A p \in sending : p.RequestedAt = NoTime
        /\ \A w \in Workers :
             Holding(w) =>
               /\ wpay[w].RequestedAt.layout = "ms"
               /\ wpay[w].CorrelationId = Cid(wpay[w].id)
               /\ wpay[w].Amount = Amount(wpay[w].id)
        /\ \A e \in events :
             e.CorrelationId = Cid(e.id) /\ e.Amount = Amount(e.id))
  /\ [][
       /\ \A w \in Workers :
            /\ (~Holding(w) /\ Holding(w)') =>
                 wpay'[w] = [Head(paymentQueue) EXCEPT !.RequestedAt = Format(now')]
            /\ (Holding(w) /\ Holding(w)') => wpay'[w] = wpay[w]
       /\ \A e \in events' \ events :
            \E w \in Workers :
              /\ wpay[w].id = e.id
              /\ e.Timestamp = wpay[w].RequestedAt.ms
              /\ e.CorrelationId = wpay[w].CorrelationId
              /\ e.Amount = wpay[w].Amount
     ]_vars

\* the workers that hold payment p
Holders(p) == {w \in Workers : wpay[w].id = p}

\* C20: no payment is received from the queue more than once or held by two
\* workers, the queue holds no payment twice, an accepted payment that is no
\* longer in the queue has been received by a worker exactly once, in the
\* order of admission, and a payment that has been received is never in the
\* queue again.
C20_PulledByExactlyOneWorker ==
  /\ [](/\ \A p \in Pids :
             /\ pulls[p] <= 1
             /\ Cardinality(Holders(p)) <= 1
             /\ Held(p) => pulls[p] = 1
             /\ InQueue(p) => (Accepted(p) /\ pulls[p] = 0)
             /\ (Accepted(p) /\ ~InQueue(p)) => pulls[p] = 1
             /\ ~Accepted(p) => pulls[p] = 0
        /\ \A i \in 1..Len(paymentQueue), j \in 1..Len(paymentQueue) :
             paymentQueue[i].id = paymentQueue[j].id => i = j)
  /\ [][\A p \in Pids :
          /\ pulls[p] = 1 => (~InQueue(p)' /\ pulls'[p] = 1)
          /\ pulls'[p] > pulls[p] =>
               /\ Head(paymentQueue).id = p
               /\ paymentQueue' = Tail(paymentQueue)
               /\ Cardinality(Holders(p)') = 1
          /\ (Held(p)' /\ ~Held(p)) => pulls'[p] = pulls[p] + 1]_vars

\* C20 witness: two workers hold two different payments at the same time,
\* each received once
C20_Witness ==
  \E w1 \in Workers, w2 \in Workers :
    /\ Holding(w1) /\ Holding(w2)
    /\ wpay[w1].id # wpay[w2].id
    /\ pulls[wpay[w1].id] = 1 /\ pulls[wpay[w2].id] = 1

\* the worker is through with p: its event was emitted, or every call for it
\* failed and it was dropped
Terminal(p) ==
  /\ p \in Pids
  /\ Finished(p)
  /\ (EventsOf(p) # {} \/ firstOk[p] = "none")

\* every worker is at its pull, holding no payment, and every permit is free
AllPulling ==
  /\ \A w \in Workers : wpc[w] = "pull" /\ ~Holding(w)
  /\ concurrencyLimiter = 0

\* C21: when every call to a processor or to the store returns and every
\* goroutine that can step eventually does, then whatever happened to the
\* payments, again and again all the workers are back at their pull with
\* every permit free and every payment accepted so far finished, its event
\* emitted or dropped after all its calls failed: no worker is lost, none
\* waits for a permit for ever, and every accepted payment eventually reaches
\* its end.
C21_EveryPaymentEndsAndWorkersKeepPulling ==
  []<>(/\ AllPulling
       /\ \A p \in Pids : Accepted(p) => Terminal(p))

\* C21 witness: a payment was dropped after all its calls failed, a payment
\* submitted after it has its event, and every worker is back at its pull
\* with all permits free
C21_Witness ==
  /\ \E p \in Pids, q \in Pids :
       /\ p < q
       /\ Failed(p)
       /\ Terminal(q) /\ EventsOf(q) # {}
  /\ AllPulling

\* some command or item of event e is still on its way to the store
Pending(e) == OnBatchPath(e) \/ OnDirectPath(e)
\* the number of commands of event e the store has run
CmdsRun(e) == writes[e.id].batch + writes[e.id].direct
\* the store has run every command of event e
Written(e) == CmdsRun(e) = Len(ItemCmds(e))
\* the store holds the amount and the instant of event e
Stored(e) ==
  /\ data[e.Prefix][e.CorrelationId] = FormatFloat(e.Amount)
  /\ hist[e.Prefix][e.CorrelationId] = [member |-> TRUE, score |-> e.Timestamp]
\* this step is a pipe.Exec that fails
WriteFails ==
  \/ processSummaryBatch_fail
  \/ \E w \in Workers : saveSummaryAsync_fail(w)
  \/ \E pipe \in direct : processSummaryDirect_fail(pipe)
\* this step is a pipe.Exec that fails with a command of event e not yet run
WriteFailsFor(e) ==
  \/ processSummaryBatch_fail /\ HasCmdOf(bpipe, e)
  \/ \E w \in Workers : saveSummaryAsync_fail(w) /\ HasCmdOf(wpipe[w], e)
  \/ \E pipe \in direct : processSummaryDirect_fail(pipe) /\ HasCmdOf(pipe, e)
\* nothing is on its way to the store and the batching loop is at its select
WriterIdle ==
  /\ bpc = "select" /\ batch = <<>> /\ bpipe = <<>>
  /\ batchProcessor = <<>> /\ direct = {}
  /\ \A w \in Workers : wpipe[w] = <<>>

\* C22: a store write that fails changes nothing in the store, drops the
\* commands it had not run and leaves its writer going: the batching loop is
\* back at its select with an empty batch, the worker back at its pull. No
\* command is run twice, and an event with nothing on its way to the store
\* never has anything on its way again. An event stops being on its way only
\* with all its commands run or in a failed write that held some of them, and
\* an event with all its commands run is in the store whatever happened to
\* the other writes. With writes failing, everything on its way is still
\* accepted and flushed again and again.
C22_FailedWriteLosesOnlyItsOwnEvents ==
  /\ [](\A e \in events :
          /\ CmdsRun(e) <= Len(ItemCmds(e))
          /\ Written(e) => Stored(e))
  /\ [][
        /\ \A e \in events :
             /\ (Pending(e) /\ ~Pending(e)') => (Written(e)' \/ WriteFailsFor(e))
             /\ ~Pending(e) => (~Pending(e)' /\ writes'[e.id] = writes[e.id])
             /\ WriteFailsFor(e) => (~Pending(e)' /\ writes'[e.id] = writes[e.id])
             /\ (WriteFails /\ Pending(e) /\ ~WriteFailsFor(e)) =>
                  (Pending(e)' \/ Written(e))
        /\ WriteFails => (data' = data /\ hist' = hist /\ events' = events)
        /\ processSummaryBatch_fail => (bpc' = "select" /\ batch' = <<>>)
        /\ \A w \in Workers : saveSummaryAsync_fail(w) => wpc'[w] = "pull"
     ]_vars
  /\ []<>WriterIdle

\* C22 witness: the batching loop is running the pipeline of a batch whose
\* event is half written, while an earlier batch write failed half way: its
\* event has one command run and nothing on its way
C22_Witness ==
  \E e1 \in events, e2 \in events :
    /\ e1.id # e2.id
    /\ ~Pending(e1) /\ writes[e1.id] = [batch |-> 1, direct |-> 0]
    /\ bpc = "exec" /\ HasCmdOf(bpipe, e2)
    /\ writes[e2.id] = [batch |-> 1, direct |-> 0]

====
